---- MODULE Spec2Model ----
(***************************************************************************)
(* Model of VW_FTP.py: one scheduled run after another of the pipeline     *)
(*   download_sftp -> unzip_file -> convert_file -> change_pictures ->     *)
(*   convert_file -> ftp_upload -> remove_temp_files -> os.rmdir           *)
(* sharing the log file (LOG_FILE) and the "temp" directory on disk.       *)
(* Python strings are sequences of one-character strings, so that strip,   *)
(* split, startswith, endswith, "in" and sorted are computed, not assumed. *)
(***************************************************************************)
EXTENDS Integers, Sequences, FiniteSets, TLC

(* ------------------------------ bounds -------------------------------- *)
MaxRuns == 2
MaxPhotoCount == 2

(* --------------------------- Python strings --------------------------- *)
\* The characters used by the model, in ascending code point order.
ASCII == << "\n", "#", ".", "/",
            "0", "1", "2", "3", "4", "5", "6", "7", "8", "9",
            "A", "C", "M", "O", "S", "X", "_",
            "a", "c", "d", "e", "f", "g", "h", "i", "j", "m", "n", "o", "p",
            "q", "r", "s", "t", "v", "w", "x", "z", "|" >>

Ord(c) == CHOOSE i \in 1..Len(ASCII) : ASCII[i] = c

\* a < b for Python str: the first differing character decides, a proper
\* prefix is smaller.
RECURSIVE StrLessFrom(_, _, _)
StrLessFrom(a, b, i) ==
    IF i > Len(b) THEN FALSE
    ELSE IF i > Len(a) THEN TRUE
    ELSE IF a[i] # b[i] THEN Ord(a[i]) < Ord(b[i])
    ELSE StrLessFrom(a, b, i + 1)

StrLess(a, b) == StrLessFrom(a, b, 1)

\* s.startswith(p), s.endswith(p)
StartsWith(s, p) == Len(s) >= Len(p) /\ SubSeq(s, 1, Len(p)) = p
EndsWith(s, p) == Len(s) >= Len(p) /\ SubSeq(s, Len(s) - Len(p) + 1, Len(s)) = p

\* sub in s
RECURSIVE ContainsFrom(_, _, _)
ContainsFrom(sub, s, i) ==
    IF i + Len(sub) - 1 > Len(s) THEN FALSE
    ELSE IF SubSeq(s, i, i + Len(sub) - 1) = sub THEN TRUE
    ELSE ContainsFrom(sub, s, i + 1)

Contains(sub, s) == ContainsFrom(sub, s, 1)

\* s.strip(chars): drops from both ends every character that is in chars.
RECURSIVE LStrip(_, _)
LStrip(s, chars) ==
    IF s # << >> /\ Head(s) \in chars THEN LStrip(Tail(s), chars) ELSE s

RECURSIVE RStrip(_, _)
RStrip(s, chars) ==
    IF s # << >> /\ s[Len(s)] \in chars
    THEN RStrip(SubSeq(s, 1, Len(s) - 1), chars) ELSE s

Strip(s, chars) == RStrip(LStrip(s, chars), chars)

CharsOf(s) == { s[i] : i \in 1..Len(s) }

\* s.split('.')[0]: the part before the first dot, all of s without a dot.
RECURSIVE SplitFirst(_, _)
SplitFirst(s, sep) ==
    IF s = << >> \/ Head(s) = sep THEN << >>
    ELSE << Head(s) >> \o SplitFirst(Tail(s), sep)

\* str(n) for n >= 0
Digit(d) == ASCII[Ord("0") + d]

RECURSIVE IntToStr(_)
IntToStr(n) ==
    IF n < 10 THEN << Digit(n) >> ELSE IntToStr(n \div 10) \o << Digit(n % 10) >>

(* ------------------------- module constants --------------------------- *)
PREFIX == << "o", "p", "s", "_", "m", "d", "m", "_", "v", "e", "h", "_",
             "i", "n", "v", "e", "n", "_", "e", "n", "_", "f", "r", "_",
             "v", "w", "_", "c", "a", "n" >>

DotTxt == << ".", "t", "x", "t" >>
DotCsv == << ".", "c", "s", "v" >>
DotZip == << ".", "z", "i", "p" >>
DotJpg == << ".", "j", "p", "g" >>
SeqJpg == << "s", "e", "q", "#", ".", "j", "p", "g" >>
MACOSX == << "_", "_", "M", "A", "C", "O", "S", "X" >>
TempDir == << "t", "e", "m", "p" >>
NewLine == << "\n" >>

(* ------------------------------ ledger -------------------------------- *)
\* log_file: the line appended to LOG_FILE, f'{filename.strip(".txt")+".zip"}\n'
LogLine(filename) == Strip(filename, CharsOf(DotTxt)) \o DotZip \o NewLine

\* log_file with the file opened in mode 'w'
log_file_truncating(log, filename) == << LogLine(filename) >>

log_file(log, filename) == Append(log, LogLine(filename))

\* check_duplicate: the loop over the lines of LOG_FILE, repeat starting False
RECURSIVE check_duplicate_loop(_, _, _, _)
check_duplicate_loop(filename, log, i, repeat) ==
    IF i > Len(log) THEN repeat
    ELSE check_duplicate_loop(filename, log, i + 1,
             IF Contains(filename, Strip(log[i], CharsOf(NewLine)))
             THEN TRUE ELSE repeat)

\* the check with == in place of in
check_duplicate_exact(filename, log) ==
    \E i \in 1..Len(log) : filename = Strip(log[i], CharsOf(NewLine))

\* the loop with repeat starting True
check_duplicate_stale(filename, log) == check_duplicate_loop(filename, log, 1, TRUE)

check_duplicate(filename, log) == check_duplicate_loop(filename, log, 1, FALSE)

(* ----------------------------- selection ------------------------------ *)
\* files = [f for f in sftp.listdir() if f.startswith(PREFIX)]
RECURSIVE PrefixFiles(_)
PrefixFiles(listing) ==
    IF listing = << >> THEN << >>
    ELSE IF StartsWith(Head(listing), PREFIX)
         THEN << Head(listing) >> \o PrefixFiles(Tail(listing))
         ELSE PrefixFiles(Tail(listing))

\* sorted(files, reverse=True): insertion of each element into a list kept
\* in descending order
RECURSIVE InsertDesc(_, _)
InsertDesc(f, sorted) ==
    IF sorted = << >> THEN << f >>
    ELSE IF StrLess(Head(sorted), f) THEN << f >> \o sorted
    ELSE << Head(sorted) >> \o InsertDesc(f, Tail(sorted))

\* sorted(files) without reverse=True
RECURSIVE SortedForward(_)
SortedForward(files) ==
    IF files = << >> THEN << >>
    ELSE LET rest == SortedForward(Tail(files))
             f == Head(files)
             n == Cardinality({ i \in 1..Len(rest) : StrLess(rest[i], f) })
         IN  SubSeq(rest, 1, n) \o << f >> \o SubSeq(rest, n + 1, Len(rest))

RECURSIVE SortedReverse(_)
SortedReverse(files) ==
    IF files = << >> THEN << >>
    ELSE InsertDesc(Head(files), SortedReverse(Tail(files)))

(* ------------------------------ transform ----------------------------- *)
\* A cell of the table as pandas hands it to the loop of change_pictures:
\*   [kind |-> "nan"]            a missing value (float nan)
\*   [kind |-> "num", n |-> N]   a number
\*   [kind |-> "str", s |-> S]   a str
NaN == [kind |-> "nan", n |-> 0, s |-> << >>]
Num(n) == [kind |-> "num", n |-> n, s |-> << >>]
Str(s) == [kind |-> "str", n |-> 0, s |-> s]

\* pd.read_csv column typing: a column with any non-numeric text is an
\* object column, whose numeric cells arrive as str too.
ReadCount(rows, i) ==
    IF rows[i].count.kind = "num" /\ \E j \in 1..Len(rows) : rows[j].count.kind = "str"
    THEN Str(IntToStr(rows[i].count.n))
    ELSE rows[i].count

\* pd.read_csv of the URL column: an empty field is a missing value
ReadUrl(rows, i) ==
    IF rows[i].url.kind = "str" /\ rows[i].url.s = << >> THEN NaN ELSE rows[i].url

\* the inner loop for one row: pic_count links, each ended by the pipe
RECURSIVE PicPathList(_, _, _)
PicPathList(pic_path0, pic_count, i) ==
    IF i >= pic_count THEN << >>
    ELSE Strip(pic_path0, CharsOf(SeqJpg)) \o IntToStr(i + 1) \o DotJpg \o << "|" >>
         \o PicPathList(pic_path0, pic_count, i + 1)

\* final_pic_path = ''.join(pic_path_list)[:-1]
FinalPicPath(pic_path0, pic_count) ==
    LET joined == PicPathList(pic_path0, pic_count, 0)
    IN  IF joined = << >> THEN << >> ELSE SubSeq(joined, 1, Len(joined) - 1)

\* The exception the loop body raises on a row, "none" when it does not.
RowRaises(tbl, i) ==
    LET pic_count == ReadCount(tbl.rows, i)
    IN  IF ~tbl.hasCount THEN "KeyError"
        ELSE IF pic_count.kind = "str" THEN "TypeError"
        ELSE IF pic_count.kind = "num" /\ pic_count.n > 0 /\ ReadUrl(tbl.rows, i).kind = "nan"
             THEN "AttributeError"
        ELSE "none"

RowResult(tbl, i) ==
    LET pic_count == ReadCount(tbl.rows, i)
    IN  [count |-> tbl.rows[i].count,
         url |-> Str(IF pic_count.kind = "num"
                     THEN FinalPicPath(tbl.rows[i].url.s, pic_count.n)
                     ELSE << >>)]

\* change_pictures: the first row that raises ends the loop with its
\* exception and the file is left as read; otherwise every row is rewritten
\* and the table is written back.
change_pictures(tbl) ==
    LET bad == { i \in 1..Len(tbl.rows) : RowRaises(tbl, i) # "none" }
    IN  IF bad # {}
        THEN [exc |-> RowRaises(tbl, CHOOSE i \in bad : \A j \in bad : i <= j),
              table |-> tbl]
        ELSE [exc |-> "none",
              table |-> [hasCount |-> tbl.hasCount,
                         rows |-> [i \in 1..Len(tbl.rows) |-> RowResult(tbl, i)]]]

(* ------------------------------- upload ------------------------------- *)
\* os.path.join(path, seg1, seg2, ...) for the directory walk, path = "temp"
RECURSIVE JoinPath(_)
JoinPath(dir) ==
    IF dir = << >> THEN TempDir
    ELSE JoinPath(SubSeq(dir, 1, Len(dir) - 1)) \o << "/" >> \o dir[Len(dir)]

\* the test of ftp_upload on the directory os.walk is visiting
Uploadable(file) == ~EndsWith(JoinPath(file.dir), MACOSX)


(* ------------------------------- inputs ------------------------------- *)
MaxListing == 3

\* file names: PREFIX, "_", a date
Dated1 == PREFIX \o << "_", "1" >>
Dated2 == PREFIX \o << "_", "2" >>

\* names the remote directory /vw_out/ may hold: the newest file as an
\* archive, as a text file and without extension, and two other files
RemoteNames == { Dated2 \o DotZip, Dated2 \o DotTxt, Dated2,
                 << "z" >> \o DotZip, << "o", "p", "s" >> }

\* results of sftp.listdir(): up to MaxListing distinct names in any order
Listings ==
    UNION { { l \in [1..n -> RemoteNames] : \A i, j \in 1..n : i # j => l[i] # l[j] }
            : n \in 0..MaxListing }

\* contents of LOG_FILE before the first run
InitialLogs == { << >>, << Dated1 \o DotZip \o NewLine >> }

UrlU == << "u", "/" >> \o SeqJpg
UrlS == << "s", "/", "e" >> \o SeqJpg

Row(count, url) == [count |-> count, url |-> url]
Table(rows) == [hasCount |-> TRUE, rows |-> rows]

\* one-row tables over every photo count, tables with a template that
\* begins and ends in characters of "seq#.jpg", with a photo count that is
\* absent or text, with no template, of two rows, and without the column
PayloadTables ==
    { Table(<< Row(Num(n), Str(UrlU)) >>) : n \in 0..MaxPhotoCount }
    \cup { Table(<< Row(Num(1), Str(UrlS)) >>),
           Table(<< Row(NaN, Str(UrlS)) >>),
           Table(<< Row(Str(<< "x" >>), Str(UrlU)) >>),
           Table(<< Row(Num(1), NaN) >>),
           Table(<< Row(NaN, Str(UrlU)), Row(Num(MaxPhotoCount), Str(UrlU)) >>),
           Table(<< Row(Num(1), Str(UrlU)), Row(Str(<< "x" >>), Str(UrlU)) >>),
           [hasCount |-> FALSE, rows |-> << Row(NaN, Str(UrlU)) >>] }

\* a file that is not a table
Blob == [hasCount |-> FALSE, rows |-> << >>]

File(dir, name, data) == [dir |-> dir, name |-> name, data |-> data]

\* files an archive may hold beside the payload
ExtraFiles ==
    { {},
      { File(<< MACOSX >>, << "m" >>, Blob) },
      { File(<< MACOSX, << "d" >> >>, << "n" >>, Blob),
        File(<< << "d" >> >>, << "r" >>, Blob) },
      { File(<< << "d" >> \o MACOSX >>, << "k" >>, Blob) } }

DefaultTable == Table(<< Row(Num(MaxPhotoCount), Str(UrlU)) >>)

\* what zipfile finds in the downloaded file: not a zip archive, an archive
\* without the payload, or the payload <stem>.txt with or without extras
Archives(filename) ==
    LET payload(t) == File(<< >>, SplitFirst(filename, ".") \o DotTxt, t)
    IN  { [valid |-> FALSE, files |-> {}] }
        \cup { [valid |-> TRUE, files |-> e] : e \in ExtraFiles \ {{}} }
        \cup { [valid |-> TRUE, files |-> { payload(t) }] : t \in PayloadTables }
        \cup { [valid |-> TRUE, files |-> { payload(DefaultTable) } \cup e] : e \in ExtraFiles }

(* -------------------------------- state ------------------------------- *)
VARIABLES
    pc,           \* the statement of main the run is at
    runs,         \* number of runs started
    ledger,       \* lines of LOG_FILE
    tempExists,   \* the directory "temp" exists
    tempFiles,    \* files below "temp"
    listing,      \* download_sftp: result of sftp.listdir()
    filename,     \* main / download_sftp: filename
    run_success,  \* main: run_success
    messages,     \* module global messages
    notified,     \* calls of slack_send_message in this run: their messages
    uploaded,     \* files stored on the FTP server in this run
    downloads,    \* names fetched by sftp.get, over all runs
    df_in,        \* change_pictures: the table read in this run
    stages,       \* steps of main completed in this run, in order
    caught,       \* main: the except clause that has run, "none" before
    atStart       \* the log and the number of downloads when the run began

vars == << pc, runs, ledger, tempExists, tempFiles, listing, filename, run_success,
           messages, notified, uploaded, downloads, df_in, stages, caught, atStart >>

NoTable == [hasCount |-> FALSE, rows |-> << >>]

Msg(prefix, text) == [prefix |-> prefix, text |-> text]

Init ==
    /\ pc = "idle"
    /\ runs = 0
    /\ ledger \in InitialLogs
    /\ tempExists = FALSE
    /\ tempFiles = {}
    /\ listing = << >>
    /\ filename = << >>
    /\ run_success = FALSE
    /\ messages = << >>
    /\ notified = << >>
    /\ uploaded = {}
    /\ downloads = << >>
    /\ df_in = NoTable
    /\ stages = << >>
    /\ caught = "none"
    /\ atStart = [ledger |-> ledger, downloads |-> 0]

\* the except clauses of main: the three named classes report str(e), any
\* other exception is reported behind "Unknown error: "
Handled(exc, text) ==
    IF exc \in { "FTPConnectionError", "KeyError", "DuplicateFileError" }
    THEN Msg("", text)
    ELSE Msg("Unknown error: ", text)

\* the except clause of main that takes an exception: the first whose class
\* the exception is an instance of; every exception raised by a step of the
\* pipeline is an Exception
ExceptClause(exc) ==
    IF exc \in { "FTPConnectionError", "KeyError", "DuplicateFileError" }
    THEN exc
    ELSE "Exception"

\* main without its last clause, except Exception: any other exception
\* leaves main and ends the process
RaiseUncaught(exc, text) ==
    IF exc \in { "FTPConnectionError", "KeyError", "DuplicateFileError" }
    THEN /\ messages' = Append(messages, Handled(exc, text))
         /\ caught' = exc
         /\ pc' = "notify"
    ELSE /\ messages' = messages
         /\ caught' = "none"
         /\ pc' = "crashed"

\* an exception leaves the try block of main for its except clause
Raise(exc, text) ==
    /\ messages' = Append(messages, Handled(exc, text))
    /\ caught' = ExceptClause(exc)
    /\ pc' = "notify"


(* ------------------------------- actions ------------------------------ *)
\* The scheduler starts the program: module globals are fresh, main sets
\* run_success and appends the heading to messages.
StartRun ==
    /\ pc \in { "idle", "terminated" }
    /\ runs < MaxRuns
    /\ runs' = runs + 1
    /\ run_success' = FALSE
    /\ messages' = << Msg("", "An error has occurred:") >>
    /\ caught' = "none"
    /\ atStart' = [ledger |-> ledger, downloads |-> Len(downloads)]
    /\ notified' = << >>
    /\ uploaded' = {}
    /\ listing' = << >>
    /\ filename' = << >>
    /\ df_in' = NoTable
    /\ stages' = << >>
    /\ pc' = "connect"
    /\ UNCHANGED << ledger, tempExists, tempFiles, downloads >>

\* download_sftp: pysftp.Connection, sftp.cwd, sftp.listdir
SftpConnect ==
    /\ pc = "connect"
    /\ \/ /\ Raise("FTPConnectionError", "Unable to authenticate connection to sftp")
          /\ UNCHANGED listing
       \/ /\ Raise("FTPConnectionError", "Unable to establish connection to host")
          /\ UNCHANGED listing
       \/ /\ Raise("SSHException", "sftp session failed")
          /\ UNCHANGED listing
       \/ /\ \E l \in Listings : listing' = l
          /\ pc' = "select"
          /\ UNCHANGED << messages, caught >>
    /\ UNCHANGED << runs, atStart, ledger, tempExists, tempFiles, filename, run_success,
                    notified, uploaded, downloads, df_in, stages >>

\* download_sftp: the choice of the file and the check against the log
SftpSelect ==
    /\ pc = "select"
    /\ LET files == PrefixFiles(listing)
       IN  IF Len(files) = 0
           THEN /\ Raise("KeyError", "Unable to find any files")
                /\ listing' = << >>
                /\ UNCHANGED filename
           ELSE LET chosen == SortedReverse(files)[1]
                IN  IF check_duplicate(chosen, ledger)
                    THEN /\ Raise("DuplicateFileError", "File has already been logged.")
                         /\ listing' = << >>
                         /\ filename' = chosen
                    ELSE /\ filename' = chosen
                         /\ pc' = "get"
                         /\ UNCHANGED << messages, caught, listing >>
    /\ UNCHANGED << runs, atStart, ledger, tempExists, tempFiles, run_success,
                    notified, uploaded, downloads, df_in, stages >>

\* download_sftp with log_file(filename) called before sftp.get(filename)
SftpGetLogsFirst ==
    /\ pc = "get"
    /\ ledger' = log_file(ledger, filename)
    /\ \/ /\ Raise("IOError", "sftp get failed")
          /\ listing' = << >>
          /\ UNCHANGED << filename, downloads, stages >>
       \/ /\ downloads' = Append(downloads, filename)
          /\ listing' = << >>
          /\ stages' = Append(stages, "download_sftp")
          /\ pc' = "unzip"
          /\ UNCHANGED << messages, caught, filename >>
    /\ UNCHANGED << runs, atStart, tempExists, tempFiles, run_success,
                    notified, uploaded, df_in >>

\* download_sftp: sftp.get(filename)
SftpGet ==
    /\ pc = "get"
    /\ \/ /\ Raise("IOError", "sftp get failed")
          /\ listing' = << >>
          /\ UNCHANGED << filename, downloads >>
       \/ /\ downloads' = Append(downloads, filename)
          /\ pc' = "log"
          /\ UNCHANGED << messages, caught, listing, filename >>
    /\ UNCHANGED << runs, atStart, ledger, tempExists, tempFiles, run_success,
                    notified, uploaded, df_in, stages >>

\* download_sftp: log_file(filename), then the return to main
LogFile ==
    /\ pc = "log"
    /\ ledger' = log_file(ledger, filename)
    /\ listing' = << >>
    /\ stages' = Append(stages, "download_sftp")
    /\ pc' = "unzip"
    /\ UNCHANGED << runs, atStart, tempExists, tempFiles, filename, run_success, messages, caught,
                    notified, uploaded, downloads, df_in >>

\* files of old replaced by the files of new that have the same path
Overwrite(old, new) ==
    { f \in old : ~\E g \in new : g.dir = f.dir /\ g.name = f.name } \cup new

\* unzip_file(filename, path): the archive is opened, or is found not to be
\* one, and its files are written below "temp", over those already there
UnzipFile ==
    /\ pc = "unzip"
    /\ \E a \in Archives(filename) :
          IF ~a.valid
          THEN /\ Raise("BadZipFile", "File is not a zip file")
               /\ UNCHANGED << tempExists, tempFiles, stages >>
          ELSE /\ tempExists' = TRUE
               /\ tempFiles' = Overwrite(tempFiles, a.files)
               /\ stages' = Append(stages, "unzip_file")
               /\ pc' = "convert_csv"
               /\ UNCHANGED << messages, caught >>
    /\ UNCHANGED << runs, atStart, ledger, listing, filename, run_success, notified,
                    uploaded, downloads, df_in >>

RootFile(name) == { f \in tempFiles : f.dir = << >> /\ f.name = name }

\* convert_file(curr_ext, new_ext, filename, path), called at pc = at
ConvertFile(at, curr_ext, new_ext, next) ==
    /\ pc = at
    /\ LET stem == SplitFirst(filename, ".")
           src == RootFile(stem \o curr_ext)
       IN  IF src = {}
           THEN /\ Raise("FileNotFoundError", "No such file or directory")
                /\ UNCHANGED << tempFiles, filename, stages >>
           ELSE /\ tempFiles' = Overwrite(tempFiles \ src,
                                    { File(<< >>, stem \o new_ext, f.data) : f \in src })
                /\ filename' = stem \o new_ext
                /\ stages' = Append(stages, "convert_file")
                /\ pc' = next
                /\ UNCHANGED << messages, caught >>
    /\ UNCHANGED << runs, atStart, ledger, tempExists, listing, run_success, notified,
                    uploaded, downloads, df_in >>

ConvertToCsv == ConvertFile("convert_csv", DotTxt, DotCsv, "change_pictures")

\* main with the call of ftp_upload left out
ConvertToTxtThenClean == ConvertFile("convert_txt", DotCsv, DotTxt, "remove_temp_files")

ConvertToTxt == ConvertFile("convert_txt", DotCsv, DotTxt, "ftp_upload")

\* change_pictures(filename)
ChangePictures ==
    /\ pc = "change_pictures"
    /\ \E f \in RootFile(filename) :
          LET r == change_pictures(f.data)
          IN  /\ df_in' = f.data
              /\ IF r.exc # "none"
                 THEN /\ Raise(r.exc, "change_pictures failed")
                      /\ UNCHANGED << tempFiles, stages >>
                 ELSE /\ tempFiles' = Overwrite(tempFiles, { File(<< >>, filename, r.table) })
                      /\ stages' = Append(stages, "change_pictures")
                      /\ pc' = "convert_txt"
                      /\ UNCHANGED << messages, caught >>
    /\ UNCHANGED << runs, atStart, ledger, tempExists, listing, filename, run_success,
                    notified, uploaded, downloads >>

IsPrefix(d, e) == Len(d) <= Len(e) /\ SubSeq(e, 1, Len(d)) = d

\* the sets of files a directory walk has passed when it stops: os.walk is
\* top-down, the files of a directory precede those of the directories below
\* of two directories that are not one below the other, the walk finishes
\* the branch of one before it enters the branch of the other
Branch(d, e) ==
    LET n == CHOOSE k \in 1..Len(d) :
                 /\ SubSeq(d, 1, k - 1) = SubSeq(e, 1, k - 1)
                 /\ d[k] # e[k]
    IN  SubSeq(d, 1, n)

Apart(d, e) == ~IsPrefix(d, e) /\ ~IsPrefix(e, d)

WalkPrefixes(files) ==
    { S \in SUBSET files :
        /\ \A f \in S : \A g \in files :
              (IsPrefix(g.dir, f.dir) /\ g.dir # f.dir) => g \in S
        /\ \A f, g \in S :
              Apart(f.dir, g.dir) =>
                  \/ \A h \in files : IsPrefix(Branch(f.dir, g.dir), h.dir) => h \in S
                  \/ \A h \in files : IsPrefix(Branch(g.dir, f.dir), h.dir) => h \in S }

\* ftp_upload with the store of a file in a try that passes on failure: the
\* file is skipped and the walk goes on
FtpUploadSkipping ==
    /\ pc = "ftp_upload"
    /\ \/ /\ Raise("error_perm", "ftp login failed")
          /\ UNCHANGED << uploaded, stages >>
       \/ \E skipped \in SUBSET { f \in tempFiles : Uploadable(f) } :
             /\ uploaded' = { f \in tempFiles : Uploadable(f) } \ skipped
             /\ stages' = Append(stages, "ftp_upload")
             /\ pc' = "remove_temp_files"
             /\ UNCHANGED << messages, caught >>
    /\ UNCHANGED << runs, atStart, ledger, tempExists, tempFiles, listing, filename,
                    run_success, notified, downloads, df_in >>

\* ftp_upload(FTP_HOST_MC, FTP_USER_MC, FTP_PASS_MC, filename, path)
FtpUpload ==
    /\ pc = "ftp_upload"
    /\ \/ /\ Raise("error_perm", "ftp login failed")
          /\ UNCHANGED << uploaded, stages >>
       \/ /\ Raise("OSError", "ftp connection failed")
          /\ UNCHANGED << uploaded, stages >>
       \/ \E passed \in WalkPrefixes(tempFiles) :
             /\ passed # tempFiles
             /\ \E g \in tempFiles \ passed : Uploadable(g)
             /\ uploaded' = { f \in passed : Uploadable(f) }
             /\ Raise("error_temp", "ftp store failed")
             /\ UNCHANGED stages
       \/ /\ uploaded' = { f \in tempFiles : Uploadable(f) }
          /\ stages' = Append(stages, "ftp_upload")
          /\ pc' = "remove_temp_files"
          /\ UNCHANGED << messages, caught >>
    /\ UNCHANGED << runs, atStart, ledger, tempExists, tempFiles, listing, filename,
                    run_success, notified, downloads, df_in >>

\* os.listdir(path): an entry of "temp" is a file of it or a directory of it
Entry(f) == IF f.dir = << >> THEN f.name ELSE f.dir[1]

\* remove_temp_files(filename, path): an entry that cannot be deleted ends
\* the loop in the except clause, whose print raises NameError (filepath)
RemoveTempFiles ==
    /\ pc = "remove_temp_files"
    /\ \/ /\ tempFiles' = {}
          /\ stages' = Append(stages, "remove_temp_files")
          /\ pc' = "rmdir"
          /\ UNCHANGED << messages, caught >>
       \/ \E kept \in SUBSET { Entry(f) : f \in tempFiles } :
             /\ kept # {}
             /\ tempFiles' = { f \in tempFiles : Entry(f) \in kept }
             /\ Raise("NameError", "name 'filepath' is not defined")
             /\ UNCHANGED stages
    /\ UNCHANGED << runs, atStart, ledger, tempExists, listing, filename, run_success,
                    notified, uploaded, downloads, df_in >>

\* os.rmdir(path) of the directory remove_temp_files has emptied;
\* run_success = True
RmDir ==
    /\ pc = "rmdir"
    /\ tempFiles = {}
    /\ tempExists' = FALSE
    /\ run_success' = TRUE
    /\ stages' = Append(stages, "rmdir")
    /\ pc' = "notify"
    /\ UNCHANGED << runs, atStart, ledger, tempFiles, listing, filename, messages, caught, notified,
                    uploaded, downloads, df_in >>

\* the end of main with the notification sent whatever run_success is
NotifyAlways ==
    /\ pc = "notify"
    /\ notified' = Append(notified, messages)
    /\ pc' = "terminated"
    /\ UNCHANGED << runs, atStart, ledger, tempExists, tempFiles, listing, filename,
                    run_success, messages, caught, uploaded, downloads, df_in, stages >>

\* the end of main: slack_send_message when the run did not succeed
Notify ==
    /\ pc = "notify"
    /\ notified' = IF run_success = FALSE THEN Append(notified, messages) ELSE notified
    /\ pc' = "terminated"
    /\ UNCHANGED << runs, atStart, ledger, tempExists, tempFiles, listing, filename,
                    run_success, messages, caught, uploaded, downloads, df_in, stages >>

Next ==
    \/ StartRun
    \/ SftpConnect
    \/ SftpSelect
    \/ SftpGet
    \/ LogFile
    \/ UnzipFile
    \/ ConvertToCsv
    \/ ChangePictures
    \/ ConvertToTxt
    \/ FtpUpload
    \/ RemoveTempFiles
    \/ RmDir
    \/ Notify

Spec == Init /\ [][Next]_vars

TypeOK ==
    /\ pc \in { "idle", "connect", "select", "get", "log", "unzip", "convert_csv",
                "change_pictures", "convert_txt", "ftp_upload", "remove_temp_files",
                "rmdir", "notify", "terminated" }
    /\ runs \in 0..MaxRuns
    /\ run_success \in BOOLEAN
    /\ tempExists \in BOOLEAN
    /\ Len(notified) <= 1


(* ------------------------------ properties ---------------------------- *)
\* download_sftp has returned to main in this run
Downloaded == stages # << >>

LastDownload == downloads[Len(downloads)]

\* a <= b in lexicographic order of code points, stated without recursion
LexLE(a, b) ==
    \/ IsPrefix(a, b)
    \/ \E k \in 1..Len(a) :
          /\ k <= Len(b)
          /\ SubSeq(a, 1, k - 1) = SubSeq(b, 1, k - 1)
          /\ Ord(a[k]) < Ord(b[k])

Elems(seq) == { seq[i] : i \in 1..Len(seq) }

\* name occurs in s as a contiguous run of characters
IsSubstring(name, s) ==
    \E i \in 0..(Len(s) - Len(name)) : \A k \in 1..Len(name) : s[i + k] = name[k]

\* C1: no remote file is downloaded by more than one run: a name that a run
\* has fetched and recorded is rejected as a duplicate by every later run.
C1_DownloadedAtMostOnce ==
    \A i, j \in 1..Len(downloads) : i # j => downloads[i] # downloads[j]

\* C2: after a run has completed, succeeded or failed, the working area
\* "temp" does not exist.
C2_TempAbsentAfterRun == pc = "terminated" => ~tempExists

\* C3: the file chosen from a listing starts with PREFIX, is in the listing
\* and is lexicographically the greatest of the listed names that start
\* with PREFIX.
C3_SelectsGreatest ==
    pc = "get" =>
        /\ filename \in Elems(listing)
        /\ StartsWith(filename, PREFIX)
        /\ \A f \in Elems(listing) : StartsWith(f, PREFIX) => LexLE(f, filename)

C3_Witness ==
    /\ pc = "get"
    /\ Len(listing) = 3
    /\ listing[3] = filename
    /\ StartsWith(listing[1], PREFIX)
    /\ ~StartsWith(listing[2], PREFIX)
    /\ LexLE(filename, listing[2])

\* C4: once the download step of a run is over, and so before and during
\* every later step and at the end of the run, the log holds the entry of
\* the downloaded file, which makes the next run reject that file.
C4_RecordedBeforeLaterSteps ==
    Downloaded =>
        /\ ledger # << >>
        /\ check_duplicate(LastDownload, ledger)

\* names asked of the log
QueryNames ==
    RemoteNames \cup { << >>, PREFIX, Dated1, Dated1 \o DotZip, PREFIX \o << "_" >>,
                       DotZip, DotZip \o DotZip, Dated2 \o DotZip \o DotZip,
                       << "_", "1", "_" >> }

\* The log changes in LogFile only: each of its contents is met at the
\* start, or right after it was written.
LogIsNew == pc \in { "idle", "unzip" }

\* C5: check_duplicate(name) is true exactly when some line of the log,
\* without its line terminator, contains name as a substring; this for
\* every content of the log and every name asked.
C5_SubstringMatch ==
    LogIsNew =>
        \A name \in QueryNames :
            check_duplicate(name, ledger)
                <=> \E i \in 1..Len(ledger) :
                        IsSubstring(name, SubSeq(ledger[i], 1, Len(ledger[i]) - 1))

C5_Witness ==
    /\ pc = "notify"
    /\ messages[Len(messages)].text = "File has already been logged."
    /\ Len(ledger) = 2
    /\ \A i \in 1..Len(ledger) : ledger[i] # filename \o NewLine
    /\ filename = Dated2 \o DotZip

\* name with its extension, the part from the last dot on, replaced by .zip
RECURSIVE DropExtension(_)
DropExtension(name) ==
    IF name = << >> THEN << >>
    ELSE IF name[Len(name)] = "." THEN SubSeq(name, 1, Len(name) - 1)
    ELSE DropExtension(SubSeq(name, 1, Len(name) - 1))

ArchiveForm(name) ==
    (IF "." \in CharsOf(name) THEN DropExtension(name) ELSE name) \o DotZip

\* C6: the line log_file appends is the name with its extension replaced by
\* the archive suffix: s.txt and s.zip are both stored as s.zip.
C6_NormalizedEntry ==
    Downloaded => ledger[Len(ledger)] = ArchiveForm(LastDownload) \o NewLine

\* the links P1.jpg|...|Pn.jpg
RECURSIVE NumberedUrls(_, _)
NumberedUrls(P, n) ==
    IF n = 0 THEN << >>
    ELSE IF n = 1 THEN P \o << "1" >> \o DotJpg
    ELSE NumberedUrls(P, n - 1) \o << "|" >> \o P \o IntToStr(n) \o DotJpg

\* the table change_pictures has written in this run
Transformed == pc = "convert_txt"

\* C7: a row with photo count N and template P + "seq#.jpg" gets the URL
\* field P1.jpg|...|PN.jpg, P left as it was.
C7_NumberedUrls ==
    Transformed =>
        \A f \in RootFile(filename) : \A i \in 1..Len(df_in.rows) :
            LET row == df_in.rows[i]
            IN  (row.count.kind = "num" /\ row.url.kind = "str"
                 /\ EndsWith(row.url.s, SeqJpg))
                => f.data.rows[i].url
                     = Str(NumberedUrls(SubSeq(row.url.s, 1, Len(row.url.s) - Len(SeqJpg)),
                                        row.count.n))

\* change_pictures has read a table in this run
TransformCalled == df_in # NoTable

\* change_pictures has left the try block of main by an exception
TransformRaised == TransformCalled /\ "change_pictures" \notin Elems(stages)

\* C8: on a table whose photo counts are absent or not numbers, and whose
\* other rows are well formed, change_pictures does not raise and leaves
\* the empty string in the URL field of each such row.
C8_AbsentOrTextCount ==
    (/\ TransformCalled
     /\ df_in.hasCount
     /\ \A i \in 1..Len(df_in.rows) :
           df_in.rows[i].count.kind = "num" => df_in.rows[i].url.kind = "str")
    => /\ ~TransformRaised
       /\ Transformed =>
            \A f \in RootFile(filename) : \A i \in 1..Len(df_in.rows) :
                df_in.rows[i].count.kind # "num" => f.data.rows[i].url = Str(<< >>)

UnderMarker(f) == \E i \in 1..Len(f.dir) : f.dir[i] = MACOSX

\* C9: no file below a directory named __MACOSX is uploaded, and a completed
\* upload has stored every other file of the working area.
C9_SkipsMarkerSubtrees ==
    /\ \A f \in uploaded : ~UnderMarker(f)
    /\ pc = "remove_temp_files" => \A f \in tempFiles : ~UnderMarker(f) => f \in uploaded

\* C10: a run that ends without run_success has called the notifier exactly
\* once, with the accumulated messages; a run that ends with run_success has
\* not called it.
C10_NotifiedOnlyOnFailure ==
    /\ run_success => notified = << >>
    /\ pc = "terminated" => (IF run_success THEN notified = << >> ELSE notified = << messages >>)
    /\ Len(notified) <= 1

C10_Witness ==
    /\ pc = "terminated"
    /\ ~run_success
    /\ notified = << messages >>
    /\ Len(messages) = 2
    /\ runs = MaxRuns


\* the statements of main and of download_sftp a run can be at, in order
Statements == << "connect", "select", "get", "log", "unzip", "convert_csv",
                 "change_pictures", "convert_txt", "ftp_upload",
                 "remove_temp_files", "rmdir", "notify", "terminated" >>

InRun == pc # "idle"

Position(p) == CHOOSE i \in 1..Len(Statements) : Statements[i] = p

\* a step of the pipeline has raised in this run
Failed == pc \in { "notify", "terminated" } /\ ~run_success

\* C11: a failure of a step of the pipeline is taken by an except clause of
\* main, which records its message, and the run goes on to its last
\* statement: a run is always at a statement of main whose step can be
\* taken, or has terminated, and every step takes it nearer to the end.
RunCanStep ==
    /\ InRun => pc \in Elems(Statements)
    /\ pc = "change_pictures" => RootFile(filename) # {}
    /\ pc = "rmdir" => tempFiles = {}

FailureIsCaught ==
    /\ Failed => caught # "none" /\ Len(messages) = 2
    /\ caught # "none" => Failed

\* each step of a run moves it to a later statement of main
RunAdvances ==
    (InRun /\ pc # "terminated") =>
        /\ pc' \in Elems(Statements)
        /\ Position(pc') > Position(pc)

C11_FailuresCaught == [](RunCanStep /\ FailureIsCaught) /\ [][RunAdvances]_vars

C11_Witness ==
    /\ pc = "terminated"
    /\ caught = "Exception"
    /\ messages[2] = Msg("Unknown error: ", "name 'filepath' is not defined")


\* the message of the failure of this run
FailureText == messages[2].text

\* C12: a failure of unzip_file, convert_file, change_pictures or ftp_upload
\* that is not a connection failure is reported as an unknown error, and the
\* not-found report is made only when no listed name starts with PREFIX.
C12_UnknownErrorClass ==
    Failed =>
        /\ (Downloaded /\ FailureText \notin { "ftp login failed", "ftp connection failed" })
              => caught = "Exception" /\ messages[2].prefix = "Unknown error: "
        /\ caught = "KeyError" => ~Downloaded /\ FailureText = "Unable to find any files"

\* C13: a failure to authenticate at, or to reach, the SFTP source or the
\* FTP destination is reported as a connection error.
C13_ConnectionErrorClass ==
    (Failed /\ FailureText \in { "Unable to authenticate connection to sftp",
                                 "Unable to establish connection to host",
                                 "ftp login failed", "ftp connection failed" })
    => caught = "FTPConnectionError"

StoreFailed == Failed /\ FailureText = "ftp store failed"

UploadableFiles == { f \in tempFiles : Uploadable(f) }

\* C14: a store that fails ends the upload: the files not yet stored stay
\* unstored to the end of the run, which ends failed with the error
\* reported; an upload that returns has stored every file it does not skip.
C14_StoreFailureAborts ==
    /\ StoreFailed =>
          /\ uploaded \subseteq UploadableFiles
          /\ uploaded # UploadableFiles
          /\ caught = "Exception"
          /\ "ftp_upload" \notin Elems(stages)
          /\ pc = "terminated" => notified = << messages >>
    /\ pc = "remove_temp_files" => uploaded = UploadableFiles

C14_Witness ==
    /\ StoreFailed
    /\ pc = "terminated"
    /\ uploaded # {}
    /\ Cardinality(UploadableFiles \ uploaded) = 2


\* C15: the log only grows at its end: what it held before a step is a
\* prefix of what it holds after.
C15_AppendOnly == [][IsPrefix(ledger, ledger')]_vars

C15_Witness ==
    /\ Len(ledger) = 3
    /\ ledger[1] = Dated1 \o DotZip \o NewLine
    /\ Len(downloads) = 2

\* C16: change_pictures applied to a table it has written returns and
\* writes the same table.
C16_Idempotent ==
    Transformed =>
        \A f \in RootFile(filename) :
            change_pictures(f.data) = [exc |-> "none", table |-> f.data]

\* the calls of main, in the order of its try block
MainOrder == << "download_sftp", "unzip_file", "convert_file", "change_pictures",
                "convert_file", "ftp_upload", "remove_temp_files", "rmdir" >>

StagesInOrder ==
    /\ IsPrefix(stages, MainOrder)
    /\ uploaded # {} => Len(stages) >= 5
    /\ caught # "none" => pc \in { "notify", "terminated" }

\* after a failure nothing more is done in the run
FailureStopsRun ==
    (caught # "none" /\ runs' = runs) =>
        UNCHANGED << stages, uploaded, tempExists, tempFiles, ledger, downloads >>

\* C17: the steps of a run are taken in the order download, unzip, convert,
\* transform, convert, upload, clean, each once at most; a failure ends the
\* processing of the run, and files are uploaded only after the download,
\* the unzip, the transform and both conversions of the same run.
C17_StageOrder == []StagesInOrder /\ [][FailureStopsRun]_vars

C17_Witness ==
    /\ pc = "terminated"
    /\ run_success
    /\ stages = MainOrder
    /\ uploaded # {}

\* C18: a run whose download has completed has added one line to the log;
\* a run that has not downloaded (connection error, no file, duplicate,
\* failed download) has added none and has fetched nothing.
C18_OneLinePerDownload ==
    /\ Downloaded =>
          /\ Len(ledger) = Len(atStart.ledger) + 1
          /\ IsPrefix(atStart.ledger, ledger)
          /\ Len(downloads) = atStart.downloads + 1
    /\ ~Downloaded =>
          /\ ledger = atStart.ledger
          /\ Len(downloads) = atStart.downloads + (IF pc = "log" THEN 1 ELSE 0)

C18_Witness ==
    /\ pc = "terminated"
    /\ FailureText = "sftp get failed"
    /\ atStart.ledger # << >>
    /\ ledger = atStart.ledger
    /\ runs = 2
    /\ Len(downloads) = 1


\* the program installed with an empty LOG_FILE
InitEmptyLog == Init /\ ledger = << >>

SpecEmptyLog == InitEmptyLog /\ [][Next]_vars

DuplicateRaised == Failed /\ caught = "DuplicateFileError"

\* C19: from an empty log on, DuplicateFileError is raised only for a name
\* that an earlier run has downloaded under exactly that name.
C19_ExactNameOnly == DuplicateRaised => filename \in Elems(downloads)

\* C19 as amended: from an empty log on, DuplicateFileError is raised only
\* for a name that is a substring of a line of the log, each line being the
\* entry written after a download of an earlier run.
C19_RecordedLineContains ==
    DuplicateRaised =>
        /\ Len(ledger) = Len(downloads)
        /\ \E i \in 1..Len(ledger) :
              /\ ledger[i] = LogLine(downloads[i])
              /\ IsSubstring(filename, SubSeq(ledger[i], 1, Len(ledger[i]) - 1))

C19_Witness ==
    /\ DuplicateRaised
    /\ filename = Dated2
    /\ downloads = << Dated2 \o DotZip >>
    /\ atStart.ledger = ledger

====
